---- MODULE Spec2Model ----
(***************************************************************************)
(* A model of i_am_freq_remapper: the circular sample buffer               *)
(* (src/ring_buffer.rs), the phase-vocoder engine (src/phase_vocoder.rs)   *)
(* and the plugin front door (src/lib.rs).                                 *)
(*                                                                         *)
(* Machine integers (usize) are modelled with UsizeBits bits.  Arithmetic  *)
(* that overflows panics in a debug build and wraps in a release build;    *)
(* the variable build fixes which of the two this run of the program is.   *)
(***************************************************************************)
EXTENDS Integers, Sequences, FiniteSets, Bags, TLC

VARIABLES
    build,      \* "debug" or "release": what integer overflow does
    rb,         \* SpecRing: the RingBuffer under test
    pushed,     \* SpecRing history: every value pushed so far, in order
    dirty,      \* SpecRing history: the number of writes through index_mut so far
    rcall,      \* SpecRing history: the last RingBuffer call, its result, the buffer before it
    pv,         \* Spec: the PhaseVocoder under test (h_ fields are history)
    panic,      \* "none", or the panic that ended the program
    ecall,      \* Spec history: the last PhaseVocoder call and what it returned
    host,       \* SpecHost: the plugin (its two engines, script text, declared latency)
    tone        \* SpecTone: a PhaseVocoder with exact sample values, and its settings

ringVars == <<rb, pushed, dirty, rcall>>
engVars == <<pv, ecall>>
vars == <<build, rb, pushed, dirty, rcall, pv, panic, ecall, host, tone>>

----------------------------------------------------------------------------
\* Bounds of the model.

\* Width of the machine's usize in the model.
UsizeBits == 6
\* Largest capacity of a RingBuffer under test in SpecRing.
MaxCap == 3
\* Largest value pushed in SpecRing (0 is T::default()).
MaxVal == 2
\* Number of push calls followed in SpecRing.
MaxPushes == 4
\* Number of writes through index_mut followed in SpecRing.
MaxWrites == 1

UsizeMod == 2 ^ UsizeBits
UsizeMax == UsizeMod - 1

Builds == {"debug", "release"}

----------------------------------------------------------------------------
\* src/ring_buffer.rs

\* T::default() of the element type of the buffer under test.
RingDefault == 0

\* RingBuffer::new: capacity slots holding the default value, cursor 0.
RingNew(capacity, default) ==
    [capacity |-> capacity,
     current_pos |-> 0,
     buffer |-> [i \in 0..(capacity - 1) |-> default]]

\* RingBuffer::capacity
Capacity(r) == r.capacity

\* A push that forgets to advance the cursor.
PushNoAdvance(r, value) ==
    [r EXCEPT !.buffer[r.current_pos] = value]

\* RingBuffer::push: write at the cursor, advance the cursor circularly.
Push(r, value) ==
    [r EXCEPT !.buffer[r.current_pos] = value,
              !.current_pos = (r.current_pos + 1) % r.capacity]

\* idx + self.current_pos exceeds usize.
IndexOverflows(r, idx) == idx + r.current_pos > UsizeMax

\* An index that ignores the cursor.
PhysSlotNoCursor(r, idx) == idx % r.capacity

\* The physical slot Index<usize>/IndexMut<usize> address:
\* (idx + self.current_pos) % self.capacity, the sum in usize arithmetic
\* (the wrapped sum is what a release build computes).
PhysSlot(r, idx) == ((idx + r.current_pos) % UsizeMod) % r.capacity

\* Index<usize>::index
Index(r, idx) == r.buffer[PhysSlot(r, idx)]

\* IndexMut<usize>::index_mut followed by an assignment through the reference.
IndexSet(r, idx, value) == [r EXCEPT !.buffer[PhysSlot(r, idx)] = value]

\* The loop of extend_defaults: len pushes of the default value.
RECURSIVE PushDefaults(_, _, _)
PushDefaults(r, len, default) ==
    IF len = 0 THEN r ELSE PushDefaults(Push(r, default), len - 1, default)

\* An extend_defaults without the capacity test.
ExtendDefaultsNoGuard(r, len, default) ==
    [ok |-> TRUE, r |-> PushDefaults(r, len, default)]

\* RingBuffer::extend_defaults: refuse when len exceeds the capacity, else
\* push len defaults.
ExtendDefaults(r, len, default) ==
    IF Capacity(r) < len
    THEN [ok |-> FALSE, r |-> r]
    ELSE [ok |-> TRUE, r |-> PushDefaults(r, len, default)]

----------------------------------------------------------------------------
\* src/phase_vocoder.rs: values.
\*
\* Samples and spectra are kept symbolically.  An input sample is the number
\* of its position in the stream since the last reset (1, 2, ...), and 0 is
\* the sample 0.0 of a fresh buffer.  A sum of floats is the bag of its
\* terms, the empty bag being 0.0; frequencies are whole numbers of Hz.

OVERLAP_RATIO == 4

\* The factor of `* 4.0` applied to every emitted sample.
OutputScale == 4

Zero == EmptyBag
Atom(x) == SetToBag({x})

Max(a, b) == IF a >= b THEN a ELSE b

RECURSIVE Pow2From(_, _)
Pow2From(p, n) == IF p >= n THEN p ELSE Pow2From(2 * p, n)

\* usize::next_power_of_two overflows: no power of two >= n fits in usize.
NextPow2Overflows(n) == Pow2From(1, n) > UsizeMax

\* usize::next_power_of_two as a release build computes it (0 on overflow).
NextPowerOfTwo(n) == IF NextPow2Overflows(n) THEN 0 ELSE Pow2From(1, n)

\* The window size new and renew_window_size settle on.
RoundWindow(window_size) == Max(NextPowerOfTwo(window_size), OVERLAP_RATIO)

\* A rounding that forgets the floor at the overlap ratio.
RoundWindowNoFloor(window_size) == NextPowerOfTwo(window_size)

\* (0..window_size).map(|k| k as f32 * sample_rate / window_size as f32)
BinFrequencies(window_size, sample_rate) ==
    [k \in 0..(window_size - 1) |-> (k * sample_rate) \div window_size]

\* The scripts the model knows, by their text.
\*   ""       the empty text
\*   "syntax" does not compile
\*   "throw"  compiles, every run raises an error
\*   "guard"  raises an error when frequency > 0.0, else changes nothing
\*   "double" frequency = frequency * 2.0
\*   "triple" frequency = frequency * 3.0 (SpecTone only)
\*   "pin"    frequency = a (every bin is sent to the frequency the control
\*            value a names)
Texts == {"", "syntax", "throw", "guard", "double", "pin"}

\* HASHER.hash_one(code): a 64-bit hash under the process's random keys,
\* taken to be free of collisions on the texts of the model.
Hash(code) ==
    CASE code = "" -> 0
      [] code = "syntax" -> 1
      [] code = "throw" -> 2
      [] code = "guard" -> 3
      [] code = "double" -> 4
      [] code = "pin" -> 5
      [] code = "triple" -> 6

EMPTY_HASH == Hash("")

\* RHAI_ENGINE.compile(code) succeeds.
Compiles(code) == code # "syntax"

\* Option<AST>::None
NoAst == "(none)"

\* InputParams::default()
DefaultParams ==
    [a |-> 0, current_track_id |-> 0, window_size |-> 0, window_factor |-> 0,
     window_offset |-> 0, gain |-> 0, sample_rate |-> 0]

\* RHAI_ENGINE.run_ast_with_scope on the scope frequency_mapper builds,
\* then the frequency and magnitude left in the scope.
RunAst(ast, params, frequency, magnitude) ==
    CASE ast = "throw" -> [ok |-> FALSE, frequency |-> frequency, magnitude |-> magnitude]
      [] ast = "guard" -> [ok |-> ~(frequency > 0), frequency |-> frequency, magnitude |-> magnitude]
      [] ast = "double" -> [ok |-> TRUE, frequency |-> frequency * 2, magnitude |-> magnitude]
      [] ast = "triple" -> [ok |-> TRUE, frequency |-> frequency * 3, magnitude |-> magnitude]
      [] ast = "pin" -> [ok |-> TRUE, frequency |-> params.a, magnitude |-> magnitude]
      [] OTHER -> [ok |-> TRUE, frequency |-> frequency, magnitude |-> magnitude]

\* PhaseVocoder::frequency_mapper: the identity without a compiled script.
FrequencyMapper(e, params, frequency, magnitude) ==
    IF e.map_ast = NoAst
    THEN [ok |-> TRUE, frequency |-> frequency, magnitude |-> magnitude]
    ELSE RunAst(e.map_ast, params, frequency, magnitude)

\* History of the last cycle: its number m since the reset, the window size
\* and sample rate it ran with, the frame it analysed, the phase table it
\* started from, the output spectrum before symmetry completion, the bins
\* the remap function was called for and what it returned, the bins
\* rejected, and whether a remap call failed.
NoCycle ==
    [m |-> 0, n |-> 0, sample_rate |-> 0, frame |-> <<>>, phase_in |-> <<>>,
     spectrum |-> <<>>, calls |-> <<>>, mapped |-> <<>>, rejected |-> {},
     failed |-> FALSE]

\* PhaseVocoder::new
PVNew(window_size, sample_rate) ==
    LET w == RoundWindow(window_size) IN
    [sample_rate |-> sample_rate,
     window_size |-> w,
     frame_hop |-> w \div OVERLAP_RATIO,
     fft |-> w,
     ifft |-> w,
     input_buffer |-> RingNew(w, 0),
     output_buffer |-> RingNew(w, Zero),
     prev_analysis_phase |-> [k \in 0..(w - 1) |-> 0],
     bin_frequencies |-> BinFrequencies(w, sample_rate),
     temp_buffer |-> [k \in 0..(w - 1) |-> Zero],
     output_temp_buffer |-> [k \in 0..(w - 1) |-> Zero],
     input_count |-> 0,
     output_count |-> 0,
     map_ast |-> NoAst,
     hash |-> EMPTY_HASH,
     \* history: samples and cycles since the last reset, what was written
     \* for each sample, the output slots read since the last hop trigger,
     \* the hop triggers, the last cycle's intermediate values
     h_samples |-> 0,
     h_cycles |-> 0,
     h_out |-> <<>>,
     h_emitted |-> {},
     h_triggers |-> <<>>,
     h_cycle |-> NoCycle]

\* PhaseVocoder::clear_mapper
ClearMapper(e) == [e EXCEPT !.map_ast = NoAst]

\* An update_mapping that commits the hash before the validation call.
UpdateMappingEarlyHash(e, code) ==
    IF code = ""
    THEN [e |-> [ClearMapper(e) EXCEPT !.hash = EMPTY_HASH], ret |-> "Ok"]
    ELSE IF Hash(code) = e.hash
    THEN [e |-> e, ret |-> "Ok"]
    ELSE IF ~Compiles(code)
    THEN [e |-> e, ret |-> "CompileError"]
    ELSE LET tentative == [e EXCEPT !.map_ast = code, !.hash = Hash(code)] IN
         IF ~FrequencyMapper(tentative, DefaultParams, 0, "zero").ok
         THEN [e |-> [tentative EXCEPT !.map_ast = e.map_ast], ret |-> "RuntimeError"]
         ELSE [e |-> tentative, ret |-> "Ok"]

\* PhaseVocoder::update_mapping
UpdateMapping(e, code) ==
    IF code = ""
    THEN [e |-> [ClearMapper(e) EXCEPT !.hash = EMPTY_HASH], ret |-> "Ok"]
    ELSE LET hash == Hash(code) IN
         IF hash = e.hash
         THEN [e |-> e, ret |-> "Ok"]
         ELSE IF ~Compiles(code)
         THEN [e |-> e, ret |-> "CompileError"]
         ELSE LET ori == e.map_ast
                  tentative == [e EXCEPT !.map_ast = code]
              IN IF ~FrequencyMapper(tentative, DefaultParams, 0, "zero").ok
                 THEN [e |-> [tentative EXCEPT !.map_ast = ori], ret |-> "RuntimeError"]
                 ELSE [e |-> [tentative EXCEPT !.hash = hash], ret |-> "Ok"]

\* A renew_window_size that keeps the old hop counters.
RenewWindowSizeKeepCounters(e, window_size) ==
    LET w == RoundWindow(window_size) IN
    IF w = e.window_size
    THEN [e |-> e, ret |-> 0]
    ELSE [e |-> [e EXCEPT
                   !.window_size = w,
                   !.frame_hop = w \div OVERLAP_RATIO,
                   !.input_buffer = RingNew(w, 0),
                   !.output_buffer = RingNew(w, Zero),
                   !.bin_frequencies = BinFrequencies(w, e.sample_rate),
                   !.fft = w,
                   !.ifft = w,
                   !.prev_analysis_phase = [k \in 0..(w - 1) |-> 0],
                   !.temp_buffer = [k \in 0..(w - 1) |-> Zero],
                   !.output_temp_buffer = [k \in 0..(w - 1) |-> Zero],
                   !.h_samples = 0,
                   !.h_cycles = 0,
                   !.h_out = <<>>,
                   !.h_emitted = {},
                   !.h_triggers = <<>>,
                   !.h_cycle = NoCycle],
          ret |-> w]

\* PhaseVocoder::renew_window_size; ret is 0 for None, else Some(ret).
RenewWindowSize(e, window_size) ==
    LET w == RoundWindow(window_size) IN
    IF w = e.window_size
    THEN [e |-> e, ret |-> 0]
    ELSE [e |-> [e EXCEPT
                   !.window_size = w,
                   !.frame_hop = w \div OVERLAP_RATIO,
                   !.input_buffer = RingNew(w, 0),
                   !.output_buffer = RingNew(w, Zero),
                   !.bin_frequencies = BinFrequencies(w, e.sample_rate),
                   !.fft = w,
                   !.ifft = w,
                   !.prev_analysis_phase = [k \in 0..(w - 1) |-> 0],
                   !.temp_buffer = [k \in 0..(w - 1) |-> Zero],
                   !.output_temp_buffer = [k \in 0..(w - 1) |-> Zero],
                   !.input_count = 0,
                   !.output_count = 0,
                   !.h_samples = 0,
                   !.h_cycles = 0,
                   !.h_out = <<>>,
                   !.h_emitted = {},
                   !.h_triggers = <<>>,
                   !.h_cycle = NoCycle],
          ret |-> w]

\* PhaseVocoder::renew_sample_rate
RenewSampleRate(e, sample_rate) ==
    IF e.sample_rate = sample_rate
    THEN e
    ELSE [e EXCEPT !.sample_rate = sample_rate,
                   !.bin_frequencies = BinFrequencies(e.window_size, sample_rate)]

\* The frame the cycle analyses: position i holds window(i) times the input
\* sample at age-position i.
AnalysisFrame(e) ==
    [i \in 0..(e.window_size - 1) |-> Index(e.input_buffer, i)]

\* Source bin 0 as it is copied to the output spectrum.
DcTerm(m) ==
    [cycle |-> m, src |-> 0, num |-> 1, den |-> 1, kind |-> "raw", prev |-> 0,
     mag |-> "raw"]

\* num/den * Complex::from_polar(magnitude, new_phase) of source bin k, where
\* new_phase is the analysis phase stored by cycle prev (0: none yet) plus
\* the advance of bin k over one hop.
PolarTerm(m, k, num, den, prev, magnitude) ==
    [cycle |-> m, src |-> k, num |-> num, den |-> den, kind |-> "polar",
     prev |-> prev, mag |-> magnitude]

\* A bin accumulation that overwrites.
AccumulateOverwrite(out, b, term) ==
    IF term.num = 0 THEN out ELSE [out EXCEPT ![b] = Atom(term)]

\* output_temp_buffer[b] += term (a term of weight 0 adds 0.0).
Accumulate(out, b, term) ==
    IF term.num = 0 THEN out ELSE [out EXCEPT ![b] = @ (+) Atom(term)]

\* A rejection test that lets frequencies at or above Nyquist through.
RejectedNegativeOnly(mapped_freq, sample_rate) == mapped_freq < 0

\* mapped_freq < 0.0 || mapped_freq >= self.sample_rate / 2.0
Rejected(mapped_freq, sample_rate) ==
    mapped_freq < 0 \/ 2 * mapped_freq >= sample_rate

\* A bin 0 that goes through the remap function like the others would need
\* this not to special-case it: here bin 0 is dropped instead of copied.
DcStepDropped(st, m) == st

\* k == 0: self.output_temp_buffer[0] = *value
DcStep(st, m) == [st EXCEPT !.out[0] = Atom(DcTerm(m))]

\* One pass of the per-bin loop of process_inner for bin k of cycle m.
BinStep(e, params, m, st, k) ==
    IF k = 0
    THEN DcStep(st, m)
    ELSE LET bin_center_freq == e.bin_frequencies[k]
             res == FrequencyMapper(e, params, bin_center_freq, "norm")
             st1 == [st EXCEPT !.calls = Append(@, k),
                               !.mapped = @ @@ (k :> res)]
         IN IF ~res.ok
            THEN [st1 EXCEPT !.failed = TRUE]
            ELSE IF Rejected(res.frequency, e.sample_rate)
            THEN [st1 EXCEPT !.rejected = @ \cup {k}]
            ELSE LET half == e.window_size \div 2
                     scaled == res.frequency * e.window_size
                     k_low == scaled \div e.sample_rate
                     num == scaled % e.sample_rate
                     den == e.sample_rate
                     low == PolarTerm(m, k, den - num, den, st.phase[k], res.magnitude)
                     high == PolarTerm(m, k, num, den, st.phase[k], res.magnitude)
                     o1 == IF k_low <= half THEN Accumulate(st.out, k_low, low)
                           ELSE st.out
                     o2 == IF k_low < half THEN Accumulate(o1, k_low + 1, high)
                           ELSE o1
                 IN [st1 EXCEPT !.out = o2, !.phase[k] = m]

\* The loop over k = 0 ..= window_size / 2; a failing remap call panics
\* (unreachable!) and ends it.
RECURSIVE BinLoop(_, _, _, _, _)
BinLoop(e, params, m, st, k) ==
    IF k > e.window_size \div 2 \/ st.failed
    THEN st
    ELSE BinLoop(e, params, m, BinStep(e, params, m, st, k), k + 1)

\* The overlap-add loop: output_buffer[i] += ifft[i].re * window(i) /
\* window_size * gain, the term written with the input sample the frame
\* held at position i.
RECURSIVE OverlapAdd(_, _, _, _)
OverlapAdd(ob, frame, m, i) ==
    IF i = ob.capacity
    THEN ob
    ELSE OverlapAdd(
            IndexSet(ob, i, Index(ob, i) (+) Atom([cycle |-> m, pos |-> i, smp |-> frame[i]])),
            frame, m, i + 1)

\* A cycle that does not clear the output spectrum: it starts from what the
\* previous cycle's inverse transform left in output_temp_buffer.
SpectrumNotCleared(e) == e.output_temp_buffer

\* self.output_temp_buffer[i] = Complex::ZERO, for every i
ClearedSpectrum(e) == [i \in 0..(e.window_size - 1) |-> Zero]

\* PhaseVocoder::process_inner: one analysis-remap-synthesis cycle.
ProcessInner(e, params) ==
    LET n == e.window_size
        m == e.h_cycles + 1
        frame == AnalysisFrame(e)
        st0 == [out |-> ClearedSpectrum(e),
                phase |-> e.prev_analysis_phase,
                calls |-> <<>>,
                mapped |-> <<>>,
                rejected |-> {},
                failed |-> FALSE]
        st == BinLoop(e, params, m, st0, 0)
        cycle == [m |-> m, n |-> n, sample_rate |-> e.sample_rate,
                  frame |-> frame, phase_in |-> e.prev_analysis_phase,
                  spectrum |-> st.out, calls |-> st.calls,
                  mapped |-> st.mapped, rejected |-> st.rejected,
                  failed |-> st.failed]
    IN IF st.failed
       THEN [e EXCEPT !.temp_buffer = [k \in 0..(n - 1) |-> Atom([cycle |-> m, bin |-> k])],
                      !.output_temp_buffer = st.out,
                      !.prev_analysis_phase = st.phase,
                      !.h_cycle = cycle]
       ELSE [e EXCEPT !.temp_buffer = [k \in 0..(n - 1) |-> Atom([cycle |-> m, bin |-> k])],
                      !.output_temp_buffer = [i \in 0..(n - 1) |-> Atom([cycle |-> m, pos |-> i])],
                      !.prev_analysis_phase = st.phase,
                      !.output_buffer = OverlapAdd(e.output_buffer, frame, m, 0),
                      !.h_cycles = m,
                      !.h_cycle = cycle]

\* The record of a hop trigger: the sample being processed, the result of
\* extend_defaults, the output buffer before and after it, and the physical
\* slots read since the previous trigger.
TriggerRecord(e, ext) ==
    [sample |-> e.h_samples, ok |-> ext.ok, pre |-> e.output_buffer,
     post |-> ext.r, emitted |-> e.h_emitted]

\* A hop trigger that does not rewind the read offset.
HopTriggerNoRewind(e, params) ==
    LET ext == ExtendDefaults(e.output_buffer, e.frame_hop, Zero) IN
    ProcessInner(
        [e EXCEPT !.output_buffer = ext.r,
                  !.input_count = e.input_count - e.frame_hop,
                  !.h_emitted = {},
                  !.h_triggers = Append(@, TriggerRecord(e, ext))],
        params)

\* The body of `if self.input_count >= self.frame_hop`.
HopTrigger(e, params) ==
    LET ext == ExtendDefaults(e.output_buffer, e.frame_hop, Zero) IN
    ProcessInner(
        [e EXCEPT !.output_buffer = ext.r,
                  !.input_count = e.input_count - e.frame_hop,
                  !.output_count = (e.output_count + Capacity(e.output_buffer) - e.frame_hop)
                                      % Capacity(e.output_buffer),
                  !.h_emitted = {},
                  !.h_triggers = Append(@, TriggerRecord(e, ext))],
        params)

\* A trigger test that fires one sample late.
HopDueLate(e) == e.input_count > e.frame_hop

\* if self.input_count >= self.frame_hop
HopDue(e) == e.input_count >= e.frame_hop

\* One pass of the sample loop of process.
ProcessSample(e, params) ==
    LET sample == e.h_samples + 1
        written == [scale |-> OutputScale, sum |-> Index(e.output_buffer, e.output_count)]
        e1 == [e EXCEPT !.input_buffer = Push(e.input_buffer, sample),
                        !.input_count = e.input_count + 1,
                        !.output_count = (e.output_count + 1) % Capacity(e.output_buffer),
                        !.h_samples = sample,
                        !.h_out = Append(@, written),
                        !.h_emitted = @ \cup {PhysSlot(e.output_buffer, e.output_count)}]
    IN IF HopDue(e1) THEN HopTrigger(e1, params) ELSE e1

RECURSIVE ProcessLoop(_, _, _)
ProcessLoop(e, params, remaining) ==
    IF remaining = 0 \/ e.h_cycle.failed
    THEN e
    ELSE ProcessLoop(ProcessSample(e, params), params, remaining - 1)

\* A process that does not take up the window size of its parameters.
ProcessEntryKeepWindow(e, params) == RenewSampleRate(e, params.sample_rate)

\* The two calls process makes before its sample loop.
ProcessEntry(e, params) ==
    RenewSampleRate(RenewWindowSize(e, params.window_size).e, params.sample_rate)

\* PhaseVocoder::process on a slice of len samples.
Process(e, len, params) == ProcessLoop(ProcessEntry(e, params), params, len)

----------------------------------------------------------------------------
\* SpecRing: one RingBuffer<T> driven through its public interface.

NoRing == RingNew(0, RingDefault)
\* Option<PhaseVocoder>::None, and the engine of a specification without one.
NoEngine == [window_size |-> 0]
NoECall ==
    [op |-> "none", arg |-> 0, ret |-> "none", pre_ast |-> NoAst, pre_hash |-> 0,
     pre_window |-> 0, pre_samples |-> 0]
NoCall == [op |-> "none", arg |-> 0, ok |-> TRUE, val |-> 0, slot |-> 0, pre |-> NoRing]
\* The plugin of a specification without one.
NoHost == [latency |-> 0]
\* The exact-valued engine of a specification without one.
NoTone == [set |-> 0]

InitRing ==
    /\ build \in Builds
    /\ \E c \in 1..MaxCap : rb = RingNew(c, RingDefault)
    /\ pushed = <<>>
    /\ dirty = 0
    /\ rcall = NoCall
    /\ pv = NoEngine
    /\ panic = "none"
    /\ ecall = NoECall
    /\ host = NoHost
    /\ tone = NoTone

RECURSIVE Repeat(_, _)
Repeat(v, n) == IF n = 0 THEN <<>> ELSE <<v>> \o Repeat(v, n - 1)

RingPush(v) ==
    /\ panic = "none"
    /\ Len(pushed) < MaxPushes
    /\ rb' = Push(rb, v)
    /\ pushed' = Append(pushed, v)
    /\ rcall' = [op |-> "push", arg |-> v, ok |-> TRUE, val |-> 0, slot |-> 0, pre |-> NoRing]
    /\ UNCHANGED <<tone, host, build, dirty, pv, panic, ecall>>

RingExtend(n) ==
    /\ panic = "none"
    /\ n <= rb.capacity => Len(pushed) + n <= MaxPushes
    /\ LET res == ExtendDefaults(rb, n, RingDefault) IN
        /\ rb' = res.r
        /\ pushed' = IF res.ok THEN pushed \o Repeat(RingDefault, n) ELSE pushed
        /\ rcall' = [op |-> "extend_defaults", arg |-> n, ok |-> res.ok, val |-> 0,
                   slot |-> 0, pre |-> rb]
    /\ UNCHANGED <<tone, host, build, dirty, pv, panic, ecall>>

\* The overflow check of idx + self.current_pos: a debug build panics on an
\* overflowing sum, a release build goes on with the wrapped sum.
IndexPanics(b, r, idx) == b = "debug" /\ IndexOverflows(r, idx)

\* A read through Index<usize>.
RingRead(i) ==
    /\ panic = "none"
    /\ IF IndexPanics(build, rb, i)
       THEN /\ panic' = "overflow"
            /\ rcall' = [op |-> "index", arg |-> i, ok |-> FALSE, val |-> RingDefault,
                         slot |-> 0, pre |-> rb]
       ELSE /\ panic' = panic
            /\ rcall' = [op |-> "index", arg |-> i, ok |-> TRUE, val |-> Index(rb, i),
                         slot |-> PhysSlot(rb, i), pre |-> rb]
    /\ UNCHANGED <<tone, host, build, rb, pushed, dirty, pv, ecall>>

\* A write through IndexMut<usize>.
RingWrite(i, v) ==
    /\ panic = "none"
    /\ dirty < MaxWrites
    /\ IF IndexPanics(build, rb, i)
       THEN /\ panic' = "overflow"
            /\ rb' = rb
            /\ dirty' = dirty
            /\ rcall' = [op |-> "index_mut", arg |-> i, ok |-> FALSE, val |-> v,
                         slot |-> 0, pre |-> rb]
       ELSE /\ panic' = panic
            /\ rb' = IndexSet(rb, i, v)
            /\ dirty' = dirty + 1
            /\ rcall' = [op |-> "index_mut", arg |-> i, ok |-> TRUE, val |-> v,
                         slot |-> PhysSlot(rb, i), pre |-> rb]
    /\ UNCHANGED <<tone, host, build, pushed, pv, ecall>>

RingIndices == {0, 1, UsizeMax}

NextRing ==
    \/ \E v \in 0..MaxVal : RingPush(v)
    \/ \E n \in 0..(MaxCap + 1) : RingExtend(n)
    \/ \E i \in RingIndices : RingRead(i)
    \/ \E i \in RingIndices, v \in 1..MaxVal : RingWrite(i, v)

SpecRing == InitRing /\ [][NextRing]_vars

----------------------------------------------------------------------------
\* Spec: one PhaseVocoder driven through its public interface.

\* Window size the engine under test is constructed with.
InitWindow == 4
\* Longest slice handed to one process call.
MaxSlice == 2
\* Samples followed after a reset in Spec.
MaxSamples == 3
\* Longest slice and samples followed after a reset in SpecStream.
MaxStreamSlice == 3
MaxStreamSamples == 10

SampleRates == {32, 64}
\* Window sizes asked for: one below the floor, one between two powers of
\* two, and the largest usize.
WindowRequests == {0, 5, UsizeMax}
\* Values of the control a (what the script "pin" sends every bin to).
Controls == {-1, 6}

ParamsOf(window_size, sample_rate, a) ==
    [a |-> a, current_track_id |-> 0, window_size |-> window_size,
     window_factor |-> 1, window_offset |-> 0, gain |-> 1,
     sample_rate |-> sample_rate]

\* The record of a call: pre_ holds the mapping, hash and window size the
\* engine had before it, and the samples it had taken since its last reset.
ECall(op, arg, ret) ==
    [op |-> op, arg |-> arg, ret |-> ret, pre_ast |-> pv.map_ast,
     pre_hash |-> pv.hash, pre_window |-> pv.window_size,
     pre_samples |-> pv.h_samples]

\* The record of a call of which only the result is kept.
ECallPlain(op, ret) ==
    [op |-> op, arg |-> 0, ret |-> ret, pre_ast |-> NoAst, pre_hash |-> 0,
     pre_window |-> 0, pre_samples |-> 0]

Init ==
    /\ build \in Builds
    /\ rb = NoRing
    /\ pushed = <<>>
    /\ dirty = 0
    /\ rcall = NoCall
    /\ \E sr \in SampleRates : pv = PVNew(InitWindow, sr)
    /\ panic = "none"
    /\ ecall = NoECall
    /\ host = NoHost
    /\ tone = NoTone

DoClearMapper ==
    /\ panic = "none"
    /\ pv' = ClearMapper(pv)
    /\ ecall' = ECallPlain("clear_mapper", "Ok")
    /\ UNCHANGED <<tone, host, build, ringVars, panic>>

DoUpdateMapping(code) ==
    /\ panic = "none"
    /\ LET res == UpdateMapping(pv, code) IN
        /\ pv' = res.e
        /\ ecall' = ECall("update_mapping", Hash(code), res.ret)
    /\ UNCHANGED <<tone, host, build, ringVars, panic>>

\* next_power_of_two panics on overflow in a debug build.
DoRenewWindowSize(window_size) ==
    /\ panic = "none"
    /\ IF build = "debug" /\ NextPow2Overflows(window_size)
       THEN /\ panic' = "overflow"
            /\ ecall' = ECall("renew_window_size", window_size, "panic")
            /\ UNCHANGED pv
       ELSE /\ LET res == RenewWindowSize(pv, window_size) IN
                /\ pv' = res.e
                /\ ecall' = ECall("renew_window_size", window_size,
                                  IF res.ret = 0 THEN "None" ELSE "Some")
            /\ UNCHANGED panic
    /\ UNCHANGED <<tone, host, build, ringVars>>

DoRenewSampleRate(sample_rate) ==
    /\ panic = "none"
    /\ pv' = RenewSampleRate(pv, sample_rate)
    /\ ecall' = ECallPlain("renew_sample_rate", "Ok")
    /\ UNCHANGED <<tone, host, build, ringVars, panic>>

DoProcess(len, window_size, sample_rate, a, cap) ==
    /\ panic = "none"
    /\ IF build = "debug" /\ NextPow2Overflows(window_size)
       THEN /\ panic' = "overflow"
            /\ ecall' = ECallPlain("process", "panic")
            /\ UNCHANGED pv
       ELSE LET params == ParamsOf(window_size, sample_rate, a)
                e == Process(pv, len, params)
            IN /\ (IF RoundWindow(window_size) = pv.window_size
                   THEN pv.h_samples ELSE 0) + len <= cap
               /\ pv' = e
               /\ panic' = IF e.h_cycle.failed THEN "unreachable" ELSE "none"
               /\ ecall' = ECallPlain("process",
                                      IF e.h_cycle.failed THEN "panic" ELSE "Ok")
    /\ UNCHANGED <<tone, host, build, ringVars>>

Next ==
    \/ DoClearMapper
    \/ \E code \in Texts : DoUpdateMapping(code)
    \/ \E w \in WindowRequests : DoRenewWindowSize(w)
    \/ \E sr \in SampleRates : DoRenewSampleRate(sr)
    \/ \E len \in 0..MaxSlice, w \in WindowRequests, sr \in SampleRates, a \in Controls :
          DoProcess(len, w, sr, a, MaxSamples)

Spec == Init /\ [][Next]_vars

\* SpecStream: long streams through process, with reconfiguration and a
\* mapping that never fails.
StreamTexts == {"", "double"}

NextStream ==
    \/ \E code \in StreamTexts : DoUpdateMapping(code)
    \/ \E w \in WindowRequests : DoRenewWindowSize(w)
    \/ \E sr \in SampleRates : DoRenewSampleRate(sr)
    \/ \E len \in 0..MaxStreamSlice, w \in WindowRequests, sr \in SampleRates :
          DoProcess(len, w, sr, 0, MaxStreamSamples)

SpecStream == Init /\ [][NextStream]_vars

----------------------------------------------------------------------------
\* SpecHost: the plugin (Interface) driven by its host and its editor.

\* The window_size parameter is an exponent; the source's range 7..12 with
\* default 11 (WINDOW_SIZE = 2^11) is scaled down to fit UsizeBits.
MinExponent == 2
MaxExponent == 4
DefaultExponent == 4
\* Longest channel slice of one host call, and samples followed per engine.
MaxHostSlice == 1
MaxHostSamples == 2

\* The sample rate the host runs at (config.sample_rate, transport.sample_rate).
HostSampleRates == {32}

\* const WINDOW_SIZE: usize, a power of two
WINDOW_SIZE == 2 ^ DefaultExponent

\* What the editor's buttons leave in map_code: Ok(text), or the error of a
\* failed file read.
HostCodes ==
    {[ok |-> TRUE, text |-> ""], [ok |-> TRUE, text |-> "double"],
     [ok |-> TRUE, text |-> "syntax"], [ok |-> FALSE, text |-> "io"]}

\* What one engine did in the last host call: the samples it took, and the
\* window size it had and the latency that was declared when it took the
\* first of them.
NoRun == [samples |-> 0, window |-> 0, latency |-> 0]
NoHCall ==
    [op |-> "none", exponent |-> 0, latency_before |-> 0,
     run |-> [i \in 0..1 |-> NoRun]]

\* Interface::default
HostNew ==
    [processor |-> [i \in 0..1 |-> NoEngine],
     map_code |-> [ok |-> TRUE, text |-> ""],
     latency |-> 0,
     h_call |-> NoHCall]

InitHost ==
    /\ build \in Builds
    /\ rb = NoRing
    /\ pushed = <<>>
    /\ dirty = 0
    /\ rcall = NoCall
    /\ pv = NoEngine
    /\ panic = "none"
    /\ ecall = NoECall
    /\ host = HostNew
    /\ tone = NoTone

\* Interface::initialize
Initialize(sample_rate) ==
    /\ panic = "none"
    /\ host' = [host EXCEPT
                  !.processor = [i \in 0..1 |-> PVNew(WINDOW_SIZE, sample_rate)],
                  !.latency = WINDOW_SIZE,
                  !.h_call = [NoHCall EXCEPT !.op = "initialize",
                                             !.latency_before = host.latency]]
    /\ UNCHANGED <<tone, build, ringVars, engVars, panic>>

\* The editor's Load button: map_code takes the result of reading the file.
EditorLoad(code) ==
    /\ panic = "none"
    /\ host' = [host EXCEPT !.map_code = code]
    /\ UNCHANGED <<tone, build, ringVars, engVars, panic>>

\* The editor's Clear button.
EditorClear ==
    /\ panic = "none"
    /\ host' = [host EXCEPT !.map_code = [ok |-> TRUE, text |-> ""]]
    /\ UNCHANGED <<tone, build, ringVars, engVars, panic>>

\* The loop of Interface::process over the processors: update_mapping on
\* each one that exists, stopping at the first error.
UpdateProcessors(processor, code) ==
    LET r0 == IF processor[0] = NoEngine
              THEN [e |-> NoEngine, ret |-> "Ok"]
              ELSE UpdateMapping(processor[0], code)
        r1 == IF r0.ret # "Ok" \/ processor[1] = NoEngine
              THEN [e |-> processor[1], ret |-> r0.ret]
              ELSE UpdateMapping(processor[1], code)
    IN [processor |-> [i \in 0..1 |-> IF i = 0 THEN r0.e ELSE r1.e],
        ok |-> r1.ret = "Ok"]

\* 2_usize.pow(self.params.window_size.value() as u32)
HostWindowSize(exponent) == (2 ^ exponent) % UsizeMod

\* One pass of the channel loop of Interface::process for an engine that
\* exists: the engine after it, and what it did.
RunChannel(e, len, params, latency) ==
    [e |-> Process(e, len, params),
     run |-> IF len = 0
             THEN NoRun
             ELSE [samples |-> len,
                   window |-> ProcessEntry(e, params).window_size,
                   latency |-> latency]]

\* Interface::process on a buffer of `channels` channels of len samples.
HostProcess(exponent, channels, len, sample_rate) ==
    /\ panic = "none"
    /\ LET updated == IF host.map_code.ok
                      THEN UpdateProcessors(host.processor, host.map_code.text)
                      ELSE [processor |-> host.processor, ok |-> TRUE]
           map_code == IF updated.ok THEN host.map_code
                       ELSE [ok |-> FALSE, text |-> "error"]
           window_size == HostWindowSize(exponent)
           latency == window_size
           params == ParamsOf(window_size, sample_rate, 0)
           ran == [i \in 0..1 |->
                     IF i < channels /\ updated.processor[i] # NoEngine
                     THEN RunChannel(updated.processor[i], len, params, latency)
                     ELSE [e |-> updated.processor[i], run |-> NoRun]]
           failed == \E i \in 0..1 :
                        ran[i].e # NoEngine /\ ran[i].e.h_cycle.failed
       IN /\ \A i \in 0..1 :
                (i < channels /\ host.processor[i] # NoEngine) =>
                   (IF window_size = host.processor[i].window_size
                    THEN host.processor[i].h_samples ELSE 0) + len <= MaxHostSamples
          /\ host' = [processor |-> [i \in 0..1 |-> ran[i].e],
                      map_code |-> map_code,
                      latency |-> latency,
                      h_call |-> [op |-> "process", exponent |-> exponent,
                                  latency_before |-> host.latency,
                                  run |-> [i \in 0..1 |-> ran[i].run]]]
          /\ panic' = IF failed THEN "unreachable" ELSE "none"
    /\ UNCHANGED <<tone, build, ringVars, engVars>>

NextHost ==
    \/ \E sr \in HostSampleRates : Initialize(sr)
    \/ \E code \in HostCodes : EditorLoad(code)
    \/ EditorClear
    \/ \E exponent \in MinExponent..MaxExponent, channels \in 1..2,
          len \in 0..MaxHostSlice, sr \in HostSampleRates :
          HostProcess(exponent, channels, len, sr)

SpecHost == InitHost /\ [][NextHost]_vars

----------------------------------------------------------------------------
\* SpecTone: one PhaseVocoder fed a constant input, with exact sample values.
\*
\* A value is a number of the ring Z[z], z = exp(2 pi i / PhaseSteps): the
\* tuple v stands for v[0] + v[1] z + ... + v[7] z^7 (z^8 = -1). Every
\* twiddle factor of a transform of size 4, 8 or 16 and every window value
\* times 16 is such a number, so the transforms are computed exactly. A
\* magnitude or a phase that is not of this form (it arises while the input
\* buffer still holds the zeros it started with) is Unknown, and so is all
\* that is computed from it. Values are kept as multiples of fixed scales
\* (ToneScale) in place of the divisions the code makes.

PhaseSteps == 2 * 2 * 2 * 2
HalfSteps == PhaseSteps \div 2

ZeroV == [j \in 0..(HalfSteps - 1) |-> 0]
K(v) == [known |-> TRUE, v |-> v]
Unknown == [known |-> FALSE, v |-> ZeroV]
KZero == K(ZeroV)
\* The real number n.
KInt(n) == K([j \in 0..(HalfSteps - 1) |-> IF j = 0 THEN n ELSE 0])

\* v * z^s
VRot(v, s) ==
    [j \in 0..(HalfSteps - 1) |->
        LET t == (j - s) % PhaseSteps
        IN IF t < HalfSteps THEN v[t] ELSE -v[t - HalfSteps]]

\* The complex conjugate of v.
VConj(v) ==
    [j \in 0..(HalfSteps - 1) |-> IF j = 0 THEN v[0] ELSE -v[HalfSteps - j]]

KRot(a, s) == IF a.known THEN K(VRot(a.v, s)) ELSE Unknown
KConj(a) == IF a.known THEN K(VConj(a.v)) ELSE Unknown
KAdd(a, b) ==
    IF a.known /\ b.known
    THEN K([j \in 0..(HalfSteps - 1) |-> a.v[j] + b.v[j]])
    ELSE Unknown
\* n * a for a weight n; 0.0 times a finite value is 0.0.
KScale(n, a) ==
    IF n = 0 THEN KZero
    ELSE IF a.known THEN K([j \in 0..(HalfSteps - 1) |-> n * a.v[j]])
    ELSE Unknown

\* Magnitudes and phases are integers, UnknownNumber when not known; a phase
\* p stands for the angle p * 2 pi / PhaseSteps.
UnknownNumber == 0 - 1
NonZero(v) == {j \in 0..(HalfSteps - 1) : v[j] # 0}

\* Complex::norm
VNorm(v) ==
    IF NonZero(v) = {} THEN 0
    ELSE IF Cardinality(NonZero(v)) = 1
    THEN LET r == v[CHOOSE j \in NonZero(v) : TRUE] IN IF r < 0 THEN -r ELSE r
    ELSE UnknownNumber

\* Complex::arg (atan2(0, 0) is 0)
VArg(v) ==
    IF NonZero(v) = {} THEN 0
    ELSE IF Cardinality(NonZero(v)) = 1
    THEN LET j == CHOOSE i \in NonZero(v) : TRUE
         IN IF v[j] > 0 THEN j ELSE j + HalfSteps
    ELSE UnknownNumber

\* Complex::from_polar(magnitude, phase)
FromPolar(magnitude, phase) ==
    IF magnitude = 0 THEN KZero
    ELSE IF magnitude = UnknownNumber \/ phase = UnknownNumber THEN Unknown
    ELSE KRot(KInt(magnitude), phase)

\* 16 * window(window_size, index, offset, window_factor) * a, for the
\* window_factor factor / 4:
\* 16 * 0.5 * (wf - (1 - wf) * cos t) = 2 factor - (4 - factor) (z^m + z^-m)
Windowed(a, window_size, index, offset, factor) ==
    LET m == ((index + offset) % window_size) * (PhaseSteps \div window_size)
    IN KAdd(KScale(2 * factor, a),
            KScale(-(4 - factor), KAdd(KRot(a, m), KRot(a, -m))))

\* The transform of size n of x, unnormalised: bin k is the sum over i of
\* x[i] * exp(sign * 2 pi i k / n).
RECURSIVE DftSum(_, _, _, _, _)
DftSum(x, n, sign, k, i) ==
    IF i = n
    THEN KZero
    ELSE KAdd(KRot(x[i], sign * i * k * (PhaseSteps \div n)),
              DftSum(x, n, sign, k, i + 1))

Dft(x, n, sign) == [k \in 0..(n - 1) |-> DftSum(x, n, sign, k, 0)]

NoToneCycle ==
    [m |-> 0, calls |-> <<>>, rejected |-> {}, failed |-> FALSE,
     source0 |-> KZero, output0 |-> KZero, den |-> 0]

\* PhaseVocoder::new, the buffers holding exact values.
ToneNew(window_size, sample_rate) ==
    LET w == RoundWindow(window_size) IN
    [PVNew(window_size, sample_rate) EXCEPT
        !.output_buffer = RingNew(w, KZero),
        !.temp_buffer = [k \in 0..(w - 1) |-> KZero],
        !.output_temp_buffer = [k \in 0..(w - 1) |-> KZero],
        !.h_cycle = NoToneCycle]

\* PhaseVocoder::renew_window_size
ToneRenewWindowSize(e, window_size) ==
    IF RoundWindow(window_size) = e.window_size
    THEN e
    ELSE [ToneNew(window_size, e.sample_rate) EXCEPT
             !.map_ast = e.map_ast, !.hash = e.hash]

\* 2.0 * PI * bin_center_freq * frame_hop / sample_rate, in phase steps.
PhaseAdvance(e, k) ==
    LET turns == PhaseSteps * e.bin_frequencies[k] * e.frame_hop
    IN IF turns % e.sample_rate = 0 THEN turns \div e.sample_rate
       ELSE UnknownNumber

PhaseSum(p, q) ==
    IF p = UnknownNumber \/ q = UnknownNumber THEN UnknownNumber
    ELSE (p + q) % PhaseSteps

\* A cycle that leaves source bin 0 out of the output spectrum.
ToneDcStepDropped(st, value, den) == st

\* k == 0: self.output_temp_buffer[0] = *value (times den, the scale of the
\* output spectrum)
ToneDcStep(st, value, den) == [st EXCEPT !.out[0] = KScale(den, value)]

\* One pass of the per-bin loop of process_inner for bin k, x the spectrum
\* of the windowed frame.
ToneBinStep(e, params, x, st, k) ==
    IF k = 0
    THEN ToneDcStep(st, x[0], e.sample_rate)
    ELSE LET bin_center_freq == e.bin_frequencies[k]
             res == FrequencyMapper(e, params, bin_center_freq, VNorm(x[k].v))
             st1 == [st EXCEPT !.calls = Append(@, k)]
         IN IF ~res.ok
            THEN [st1 EXCEPT !.failed = TRUE]
            ELSE IF Rejected(res.frequency, e.sample_rate)
            THEN [st1 EXCEPT !.rejected = @ \cup {k}]
            ELSE LET half == e.window_size \div 2
                     new_phase == PhaseSum(st.phase[k], PhaseAdvance(e, k))
                     scaled == res.frequency * e.window_size
                     k_low == scaled \div e.sample_rate
                     num == scaled % e.sample_rate
                     den == e.sample_rate
                     polar == FromPolar(res.magnitude, new_phase)
                     o1 == IF k_low <= half
                           THEN [st.out EXCEPT ![k_low] = KAdd(@, KScale(den - num, polar))]
                           ELSE st.out
                     o2 == IF k_low < half
                           THEN [o1 EXCEPT ![k_low + 1] = KAdd(@, KScale(num, polar))]
                           ELSE o1
                 IN [st1 EXCEPT !.out = o2, !.phase[k] = VArg(x[k].v)]

RECURSIVE ToneBinLoop(_, _, _, _, _)
ToneBinLoop(e, params, x, st, k) ==
    IF k > e.window_size \div 2 \/ st.failed
    THEN st
    ELSE ToneBinLoop(e, params, x, ToneBinStep(e, params, x, st, k), k + 1)

\* Twice the real part of a.
TwiceRe(a) == KAdd(a, KConj(a))

\* Lines 279-283 on a spectrum, every bin times 2: bins 0 and n/2 lose
\* their imaginary part, bin n - i is the conjugate of bin i.
Symmetric(out, n) ==
    [i \in 0..(n - 1) |->
        IF i = 0 \/ i = n \div 2 THEN TwiceRe(out[i])
        ELSE IF i < n \div 2 THEN KScale(2, out[i])
        ELSE KConj(KScale(2, out[n - i]))]

\* The overlap-add loop: output_buffer[i] += ifft[i].re * window(i) /
\* window_size * gain, in units of 1 / ToneScale.
RECURSIVE ToneOverlapAdd(_, _, _, _)
ToneOverlapAdd(ob, y, params, i) ==
    IF i = ob.capacity
    THEN ob
    ELSE ToneOverlapAdd(
            IndexSet(ob, i,
                     KAdd(Index(ob, i),
                          Windowed(TwiceRe(y[i]), ob.capacity, i,
                                   params.window_offset, params.window_factor))),
            y, params, i + 1)

\* What the value 1.0 of an output sample is stored as: 16 (window) times
\* sample_rate (bin weights) times 2 (symmetry) times 2 (real part) times 16
\* (window) times window_size (the inverse transform is not normalised).
ToneScale(e) == 16 * e.sample_rate * 2 * 2 * 16 * e.window_size

\* PhaseVocoder::process_inner on exact values.
ToneInner(e, params) ==
    LET n == e.window_size
        frame == [i \in 0..(n - 1) |->
                    Windowed(KInt(Index(e.input_buffer, i)), n, i,
                             params.window_offset, params.window_factor)]
        x == Dft(frame, n, -1)
        st0 == [out |-> [i \in 0..(n - 1) |-> KZero],
                phase |-> e.prev_analysis_phase,
                calls |-> <<>>,
                rejected |-> {},
                failed |-> FALSE]
        st == ToneBinLoop(e, params, x, st0, 0)
        y == Dft(Symmetric(st.out, n), n, 1)
        cycle == [m |-> e.h_cycles + 1, calls |-> st.calls,
                  rejected |-> st.rejected, failed |-> st.failed,
                  source0 |-> x[0], output0 |-> st.out[0],
                  den |-> e.sample_rate]
    IN IF st.failed
       THEN [e EXCEPT !.temp_buffer = x,
                      !.output_temp_buffer = st.out,
                      !.prev_analysis_phase = st.phase,
                      !.h_cycle = cycle]
       ELSE [e EXCEPT !.temp_buffer = x,
                      !.output_temp_buffer = y,
                      !.prev_analysis_phase = st.phase,
                      !.output_buffer = ToneOverlapAdd(e.output_buffer, y, params, 0),
                      !.h_cycles = e.h_cycles + 1,
                      !.h_cycle = cycle]

\* The body of `if self.input_count >= self.frame_hop`.
ToneHopTrigger(e, params) ==
    ToneInner(
        [e EXCEPT !.output_buffer = ExtendDefaults(e.output_buffer, e.frame_hop, KZero).r,
                  !.input_count = e.input_count - e.frame_hop,
                  !.output_count = (e.output_count + Capacity(e.output_buffer) - e.frame_hop)
                                      % Capacity(e.output_buffer)],
        params)

\* One pass of the sample loop of process, the input sample being level.
ToneProcessSample(e, params, level) ==
    LET written == [scale |-> OutputScale, value |-> Index(e.output_buffer, e.output_count)]
        e1 == [e EXCEPT !.input_buffer = Push(e.input_buffer, level),
                        !.input_count = e.input_count + 1,
                        !.output_count = (e.output_count + 1) % Capacity(e.output_buffer),
                        !.h_samples = e.h_samples + 1,
                        !.h_out = Append(@, written)]
    IN IF e1.input_count >= e1.frame_hop THEN ToneHopTrigger(e1, params) ELSE e1

RECURSIVE ToneProcessLoop(_, _, _, _)
ToneProcessLoop(e, params, level, remaining) ==
    IF remaining = 0 \/ e.h_cycle.failed
    THEN e
    ELSE ToneProcessLoop(ToneProcessSample(e, params, level), params, level,
                         remaining - 1)

\* PhaseVocoder::process on a slice of len samples of value level.
ToneProcess(e, len, params, level) ==
    ToneProcessLoop(
        RenewSampleRate(ToneRenewWindowSize(e, params.window_size), params.sample_rate),
        params, level, len)

\* The settings of a run: the constant input level, the window size asked
\* for, the window factor in quarters (the default 0.5 is 2) and the window
\* offset.
MaxLevel == 2
MaxToneSlice == 2
\* Samples followed beyond two window lengths.
MaxTail == 2
ToneWindows == {4, 8, 16}
ToneFactors == {2, 3}
ToneOffsets == {0, 1}
\* The sample rate of the run: every bin frequency is a whole number of Hz.
ToneSampleRates == {32}
ToneTexts == {"", "double", "triple"}

NoSettings == [level |-> 0, window_size |-> 0, factor |-> 0, offset |-> 0]

ToneParams(set, sample_rate) ==
    [ParamsOf(set.window_size, sample_rate, 0) EXCEPT
        !.window_factor = set.factor, !.window_offset = set.offset]

InitTone ==
    /\ build \in Builds
    /\ rb = NoRing
    /\ pushed = <<>>
    /\ dirty = 0
    /\ rcall = NoCall
    /\ pv = NoEngine
    /\ panic = "none"
    /\ ecall = NoECall
    /\ host = NoHost
    /\ \E level \in 1..MaxLevel, w \in ToneWindows, factor \in ToneFactors,
          offset \in ToneOffsets, sr \in ToneSampleRates :
          tone = [e |-> ToneNew(InitWindow, sr),
                  set |-> [level |-> level, window_size |-> w,
                           factor |-> factor, offset |-> offset]]

\* update_mapping before the stream starts.
ToneUpdateMapping(code) ==
    /\ panic = "none"
    /\ tone.e.h_samples = 0
    /\ tone' = [tone EXCEPT !.e = UpdateMapping(tone.e, code).e]
    /\ UNCHANGED <<host, build, ringVars, engVars, panic>>

\* process on len more samples of the constant input.
ToneStream(len) ==
    /\ panic = "none"
    /\ (IF tone.e.window_size = tone.set.window_size THEN tone.e.h_samples ELSE 0) + len
          <= 2 * tone.set.window_size + MaxTail
    /\ LET e == ToneProcess(tone.e, len, ToneParams(tone.set, tone.e.sample_rate),
                            tone.set.level)
       IN /\ tone' = [tone EXCEPT !.e = e]
          /\ panic' = IF e.h_cycle.failed THEN "unreachable" ELSE "none"
    /\ UNCHANGED <<host, build, ringVars, engVars>>

NextTone ==
    \/ \E code \in ToneTexts : ToneUpdateMapping(code)
    \/ \E len \in 1..MaxToneSlice : ToneStream(len)

SpecTone == InitTone /\ [][NextTone]_vars

----------------------------------------------------------------------------
\* Claims about the streaming cycle (SpecStream).

\* The cycles whose synthesis frames cover sample t when the hop is h.
CyclesCovering(t, h) == {m \in ((t \div h) - 3)..(t \div h) : m >= 1}

\* What process must write for sample t (counted from 0 since the last
\* reset) with window size n: OutputScale times the sum, over the cycles
\* covering t, of the cycle's synthesis term at frame position t - m*h, the
\* position at which that cycle analysed input sample t - n (the sample
\* numbered t - n + 1, or the 0.0 of the fresh buffer when t < n).
ExpectedWritten(t, n) ==
    LET h == n \div 4 IN
    [scale |-> 4,
     sum |-> SetToBag({[cycle |-> m, pos |-> t - m * h,
                        smp |-> IF t >= n THEN t - n + 1 ELSE 0] :
                       m \in CyclesCovering(t, h)})]

\* C1: with the window size n unchanged since the last reset, the value
\* written for sample t is 4 times the sum of the synthesis terms of exactly
\* the cycles floor(t/h)-3 .. floor(t/h) that exist (m >= 1), each at frame
\* position t - m*h, where the cycle analysed input sample t - n; so four
\* cycles for t >= n, and nothing for t < h.
C1_LatencyOneWindow ==
    /\ Len(pv.h_out) = pv.h_samples
    /\ \A t \in 0..(pv.h_samples - 1) :
          /\ pv.h_out[t + 1] = ExpectedWritten(t, pv.window_size)
          /\ t >= pv.window_size => BagCardinality(pv.h_out[t + 1].sum) = 4
          /\ t < pv.window_size \div 4 => pv.h_out[t + 1].sum = Zero

\* C1 witness: a window of 8 samples (hop 2), a sample with t >= 8 written
\* from four cycles, all aligned to input sample t - 8.
C1_Witness ==
    /\ pv.window_size = 8
    /\ pv.h_samples >= 10
    /\ BagCardinality(pv.h_out[10].sum) = 4
    /\ \A c \in BagToSet(pv.h_out[10].sum) : c.smp = 2
    /\ pv.h_out[1].sum = Zero

\* What a hop trigger's extend_defaults did: it succeeded and set to zero
\* exactly the slots read since the previous trigger, hop of them.
TriggerClearsEmitted(t, hop) ==
    /\ t.ok
    /\ Cardinality(t.emitted) = hop
    /\ t.post.capacity = t.pre.capacity
    /\ \A slot \in 0..(t.pre.capacity - 1) :
          t.post.buffer[slot] = IF slot \in t.emitted THEN Zero ELSE t.pre.buffer[slot]

\* C12: with the window size unchanged since the last reset, after s samples
\* processed in total, however they were sliced into process calls (empty
\* slices included), exactly floor(s / H) cycles have run, the k-th while
\* sample k*H was being processed; between samples input_count =
\* output_count = s mod H < H; and every trigger's extend_defaults(H)
\* succeeded and zeroed exactly the H slots emitted since the previous
\* trigger.
C12_HopTriggering ==
    LET h == pv.frame_hop
        s == pv.h_samples
    IN /\ h * OVERLAP_RATIO = pv.window_size
       /\ pv.h_cycles = s \div h
       /\ Len(pv.h_triggers) = s \div h
       /\ \A k \in 1..Len(pv.h_triggers) :
             /\ pv.h_triggers[k].sample = k * h
             /\ TriggerClearsEmitted(pv.h_triggers[k], h)
       /\ pv.input_count = s % h
       /\ pv.output_count = s % h
       /\ pv.input_count < h
       /\ Cardinality(pv.h_emitted) = s % h

\* C12 witness: hop 2, seven samples taken, the last call an empty slice;
\* three cycles have run, one sample is pending, and the third trigger
\* cleared slots that held synthesis terms.
C12_Witness ==
    /\ ecall.op = "process"
    /\ pv.frame_hop = 2
    /\ pv.h_samples = 7
    /\ pv.h_cycles = 3
    /\ pv.input_count = 1
    /\ Len(pv.h_triggers) = 3
    /\ \A slot \in pv.h_triggers[3].emitted :
          /\ pv.h_triggers[3].pre.buffer[slot] # Zero
          /\ pv.h_triggers[3].post.buffer[slot] = Zero

----------------------------------------------------------------------------
\* Claims about the engine's interface (Spec).

\* C3: an update_mapping that returns an error (the text does not compile,
\* or it compiles and faults on the neutral validation call) leaves the
\* active mapping and the cached hash as they were before the call; a text
\* that does not compile gets a compile error, one that faults on the
\* neutral call a runtime error.
C3_FailedInstallChangesNothing ==
    ecall.op = "update_mapping" =>
        /\ ecall.ret # "Ok" =>
              /\ pv.map_ast = ecall.pre_ast
              /\ pv.hash = ecall.pre_hash
        /\ ecall.arg = Hash("syntax") => ecall.ret = "CompileError"
        /\ ecall.arg = Hash("throw") => ecall.ret = "RuntimeError"

\* C3 witness: the validation call failed while a compiled mapping was
\* active, and that mapping and its hash are still in place.
C3_Witness ==
    /\ ecall.op = "update_mapping"
    /\ ecall.ret = "RuntimeError"
    /\ pv.map_ast # NoAst
    /\ pv.hash = Hash(pv.map_ast)
    /\ pv.hash # ecall.arg

\* Every slot of a buffer holds zero and its cursor is 0.
FreshBuffer(r, capacity, zero) ==
    /\ r.capacity = capacity
    /\ r.current_pos = 0
    /\ \A i \in 0..(capacity - 1) : r.buffer[i] = zero

\* What C4 says of a renew_window_size(w) that settled on size target.
ReconfiguredTo(target) ==
    target # ecall.pre_window =>
        /\ ecall.ret = "Some"
        /\ pv.window_size = target
        /\ pv.frame_hop * 4 = target
        /\ FreshBuffer(pv.input_buffer, target, 0)
        /\ FreshBuffer(pv.output_buffer, target, Zero)
        /\ DOMAIN pv.prev_analysis_phase = 0..(target - 1)
        /\ \A k \in 0..(target - 1) : pv.prev_analysis_phase[k] = 0
        /\ pv.input_count = 0
        /\ pv.output_count = 0
        /\ pv.map_ast = ecall.pre_ast
        /\ pv.hash = ecall.pre_hash

\* C4 as stated: renew_window_size with any requested size w settles on
\* W = max(next power of two >= w, 4), and when W differs from the current
\* size the engine is reset to W (hop W/4, both buffers W zero slots with
\* cursor 0, W zero phases, both counters 0, mapping and hash untouched).
C4_AnyRequest ==
    ecall.op = "renew_window_size" =>
        /\ ecall.ret # "panic"
        /\ ReconfiguredTo(Max(Pow2From(1, ecall.arg), 4))

\* C4 amended: the same for every requested size whose next power of two
\* fits in usize.
C4_Reconfigure ==
    (ecall.op = "renew_window_size" /\ ~NextPow2Overflows(ecall.arg)) =>
        /\ ecall.ret # "panic"
        /\ ReconfiguredTo(Max(Pow2From(1, ecall.arg), 4))
        /\ Max(Pow2From(1, ecall.arg), 4) = ecall.pre_window =>
              ecall.ret = "None" /\ pv.window_size = ecall.pre_window

\* C4 witness: an engine that had taken samples with a mapping installed
\* was reconfigured from 8 to 4 by a request below the floor.
C4_Witness ==
    /\ ecall.op = "renew_window_size"
    /\ ecall.arg = 0
    /\ ecall.ret = "Some"
    /\ ecall.pre_window = 8
    /\ ecall.pre_samples >= 3
    /\ pv.window_size = 4
    /\ pv.map_ast # NoAst

\* C6: with a mapping that was installed through update_mapping, no remap
\* call of the streaming cycle fails (the unreachable!() branch is never
\* taken).
C6_RemapNeverFails ==
    /\ panic # "unreachable"
    /\ ~pv.h_cycle.failed

\* The target index of source bin k in cycle c is TargetLow + TargetNum /
\* sample_rate, from the frequency the remap call returned.
TargetLow(c, k) == (c.mapped[k].frequency * c.n) \div c.sample_rate

TargetNum(c, k) == (c.mapped[k].frequency * c.n) % c.sample_rate

\* The remapped frequency of source bin k is negative or at least Nyquist.
OutOfBand(c, k) ==
    c.mapped[k].frequency < 0 \/ 2 * c.mapped[k].frequency >= c.sample_rate

\* What source bin k is due to add to output bin b in cycle c.
LowShare(c, k) ==
    PolarTerm(c.m, k, c.sample_rate - TargetNum(c, k), c.sample_rate,
              c.phase_in[k], c.mapped[k].magnitude)

HighShare(c, k) ==
    PolarTerm(c.m, k, TargetNum(c, k), c.sample_rate, c.phase_in[k],
              c.mapped[k].magnitude)

Contribution(c, k, b) ==
    IF k = 0
    THEN IF b = 0 THEN Atom(DcTerm(c.m)) ELSE Zero
    ELSE IF OutOfBand(c, k)
    THEN Zero
    ELSE (IF b = TargetLow(c, k) THEN Atom(LowShare(c, k)) ELSE Zero)
         (+) (IF b = TargetLow(c, k) + 1 /\ TargetNum(c, k) # 0
              THEN Atom(HighShare(c, k)) ELSE Zero)

RECURSIVE SumContributions(_, _, _)
SumContributions(c, b, k) ==
    IF k > c.n \div 2
    THEN Zero
    ELSE Contribution(c, k, b) (+) SumContributions(c, b, k + 1)

\* A cycle has run since the last reset and all its remap calls succeeded.
CycleDone(c) == c.m > 0 /\ ~c.failed

\* C7: in a cycle, a source bin in 1..N/2 whose remapped frequency is
\* negative or at least sample_rate/2 adds nothing to any output bin, and
\* the output spectrum before symmetry completion is exactly the sum of the
\* contributions of bin 0 and of the bins that were not rejected.
C7_RejectedBinsAddNothing ==
    CycleDone(pv.h_cycle) =>
        LET c == pv.h_cycle IN
        /\ \A k \in 1..(c.n \div 2) :
              OutOfBand(c, k) =>
                 /\ k \in c.rejected
                 /\ \A b \in 0..(c.n - 1) :
                       \A t \in BagToSet(c.spectrum[b]) : t.src # k
        /\ \A b \in 0..(c.n - 1) : c.spectrum[b] = SumContributions(c, b, 0)

\* C7 witness: a cycle of size 8 under the doubling script, where bins 2..4
\* land at or above Nyquist and are rejected while bin 1 lands in bin 2.
C7_Witness ==
    /\ CycleDone(pv.h_cycle)
    /\ pv.h_cycle.n = 8
    /\ pv.h_cycle.rejected = {2, 3, 4}
    /\ pv.h_cycle.spectrum[2] # Zero
    /\ pv.h_cycle.spectrum[3] = Zero
    /\ pv.h_cycle.spectrum[4] = Zero

\* The source bins that are due to add something to output bin b.
Contributors(c, b) == {k \in 0..(c.n \div 2) : Contribution(c, k, b) # Zero}

\* C8: within a cycle the output spectrum starts from zero (it holds
\* nothing of an earlier cycle); a non-rejected source bin adds weight
\* 1 - frac of its value to bin floor(idx) and weight frac to bin
\* floor(idx) + 1 and nothing elsewhere, only bins 0..N/2 are written, and a
\* bin that several source bins target holds one term of each of them.
C8_ContributionsAccumulate ==
    CycleDone(pv.h_cycle) =>
        LET c == pv.h_cycle IN
        /\ \A b \in 0..(c.n - 1) :
              \A t \in BagToSet(c.spectrum[b]) : t.cycle = c.m
        /\ \A b \in (c.n \div 2 + 1)..(c.n - 1) : c.spectrum[b] = Zero
        /\ \A k \in 1..(c.n \div 2) :
              ~OutOfBand(c, k) =>
                 /\ TargetLow(c, k) + 1 <= c.n \div 2
                 /\ CopiesIn(LowShare(c, k), c.spectrum[TargetLow(c, k)]) = 1
                 /\ TargetNum(c, k) # 0 =>
                       CopiesIn(HighShare(c, k), c.spectrum[TargetLow(c, k) + 1]) = 1
                 /\ \A b \in 0..(c.n - 1) :
                       \A t \in BagToSet(c.spectrum[b]) :
                          t.src = k =>
                             \/ b = TargetLow(c, k) /\ t = LowShare(c, k)
                             \/ b = TargetLow(c, k) + 1 /\ t = HighShare(c, k)
        /\ \A b \in 0..(c.n \div 2) :
              BagCardinality(c.spectrum[b]) = Cardinality(Contributors(c, b))

\* C8 witness: a second cycle of size 4 in which the script sent bins 1 and
\* 2 to the same fractional index below 1: bin 0 holds the DC term and the
\* low shares of both, bin 1 the high shares of both.
C8_Witness ==
    /\ CycleDone(pv.h_cycle)
    /\ pv.h_cycle.m >= 2
    /\ pv.h_cycle.n = 4
    /\ BagCardinality(pv.h_cycle.spectrum[0]) = 3
    /\ {t.src : t \in BagToSet(pv.h_cycle.spectrum[1])} = {1, 2}
    /\ BagCardinality(pv.h_cycle.spectrum[1]) = 2

\* C13: in every state reached through new, update_mapping and clear_mapper,
\* the cached hash identifies the active mapping: it is the empty-string
\* hash exactly when no compiled function is held, and otherwise the hash of
\* the text whose compiled function is active; so after an update_mapping of
\* a non-empty text that returned Ok, the active function is the one
\* compiled from that text.
C13_HashIdentifiesMapping ==
    /\ pv.hash = EMPTY_HASH <=> pv.map_ast = NoAst
    /\ pv.map_ast # NoAst => pv.hash = Hash(pv.map_ast)
    /\ (ecall.op = "update_mapping" /\ ecall.ret = "Ok" /\ ecall.arg # EMPTY_HASH) =>
          /\ pv.map_ast # NoAst
          /\ Hash(pv.map_ast) = ecall.arg

----------------------------------------------------------------------------
\* Claims about the plugin (SpecHost).

\* C5: after initialize and after every host process call, the declared
\* latency equals the window size of every engine that took samples in that
\* call, and each such engine had that window size, with that latency
\* already declared, when it took the first sample of the call; the latency
\* is the parameter's window size (WINDOW_SIZE after initialize).
C5_LatencyIsWindowSize ==
    /\ host.h_call.op = "initialize" =>
          /\ host.latency = WINDOW_SIZE
          /\ \A i \in 0..1 : host.processor[i].window_size = host.latency
    /\ host.h_call.op = "process" =>
          /\ host.latency = 2 ^ host.h_call.exponent
          /\ \A i \in 0..1 :
                host.h_call.run[i].samples > 0 =>
                   /\ host.processor[i].window_size = host.latency
                   /\ host.h_call.run[i].window = host.latency
                   /\ host.h_call.run[i].latency = host.latency

\* C5 witness: a host call that found latency WINDOW_SIZE declared and ran
\* both engines at a smaller window size.
C5_Witness ==
    /\ host.h_call.op = "process"
    /\ host.h_call.latency_before = WINDOW_SIZE
    /\ host.latency = 2 ^ MinExponent
    /\ host.latency # WINDOW_SIZE
    /\ \A i \in 0..1 :
          /\ host.h_call.run[i].samples > 0
          /\ host.processor[i].window_size = host.latency

----------------------------------------------------------------------------
\* Claims about a constant input (SpecTone).

\* The values written for the samples taken after two window lengths: the
\* four cycles each of them sums saw only the constant input, and so did
\* the cycles that left the phases these cycles started from.
SteadyOutputs(e) ==
    {e.h_out[t].value : t \in (2 * e.window_size + 1)..Len(e.h_out)}

\* In the last cycle the remap function was called for bins 1..N/2 only, and
\* output bin 0 holds source bin 0 (no other bin was sent below bin 1).
DcCopied(e) ==
    (e.h_cycle.m > 0 /\ ~e.h_cycle.failed) =>
        /\ e.h_cycle.calls = [k \in 1..(e.window_size \div 2) |-> k]
        /\ e.h_cycle.output0 = KScale(e.h_cycle.den, e.h_cycle.source0)
        /\ e.h_cycle.source0.known

\* The steady output is constant.
SteadyConstant(e) ==
    /\ \A v \in SteadyOutputs(e) : v.known
    /\ Cardinality(SteadyOutputs(e)) <= 1

\* C9 as stated: in every cycle and for any installed mapping, source bin 0
\* is copied to output bin 0 without a call of the remap function and is
\* never dropped, and a constant input gives a constant output once the
\* steady state is reached.
C9_AnyMapping == DcCopied(tone.e) /\ SteadyConstant(tone.e)

\* C9 amended: the copy of bin 0 holds for any installed mapping; the
\* constant output holds when no mapping is installed (the remap function is
\* the identity).
C9_DcPreserved ==
    /\ DcCopied(tone.e)
    /\ tone.e.map_ast = NoAst => SteadyConstant(tone.e)

\* C9 witness: a window of 16 without a mapping, default window factor, has
\* written two steady samples, both the input level exactly.
C9_Witness ==
    /\ tone.e.window_size = 16
    /\ tone.e.map_ast = NoAst
    /\ tone.set.factor = 2
    /\ tone.e.h_samples = 2 * 16 + 2
    /\ tone.e.h_cycle.m = 8
    /\ \A v \in SteadyOutputs(tone.e) :
          /\ v.known
          /\ OutputScale * v.v[0] = tone.set.level * ToneScale(tone.e)
          /\ \A j \in 1..(HalfSteps - 1) : v.v[j] = 0

----------------------------------------------------------------------------
\* Claims about the circular buffer (SpecRing).

\* The value index(i) must return after the pushes recorded in pushed: the
\* (n - C + i + 1)-th push when there is one, the default value otherwise.
ExpectedAt(i) ==
    LET j == Len(pushed) - rb.capacity + i + 1
    IN IF j >= 1 THEN pushed[j] ELSE RingDefault

\* C2: after any sequence of n pushes and no indexed write, index(i) for
\* 0 <= i < C is the (n - C + i + 1)-th pushed value when that push exists
\* and the default otherwise (so index(0) is the oldest retained value and
\* index(C-1) the newest), and the write cursor stays in [0, C).
C2_PushIndexOrder ==
    dirty = 0 =>
        /\ rb.current_pos \in 0..(rb.capacity - 1)
        /\ \A i \in 0..(rb.capacity - 1) : Index(rb, i) = ExpectedAt(i)
        /\ Len(pushed) >= 1 => Index(rb, rb.capacity - 1) = pushed[Len(pushed)]

\* C2 witness: the buffer has wrapped (more pushes than slots) and holds
\* distinct non-default values at its oldest and newest position.
C2_Witness ==
    /\ dirty = 0
    /\ rb.capacity >= 2
    /\ Len(pushed) > rb.capacity
    /\ rb.current_pos # 0
    /\ Index(rb, 0) # RingDefault
    /\ Index(rb, rb.capacity - 1) # RingDefault
    /\ Index(rb, 0) # Index(rb, rb.capacity - 1)

\* The physical slots extend_defaults(n) clears, starting at the cursor.
ClearedSlots(r, n) == {(r.current_pos + j) % r.capacity : j \in 0..(n - 1)}

\* C10: extend_defaults(n) with n <= C reports success, advances the cursor
\* by n modulo C and sets exactly the n slots from the old cursor on to the
\* default value (what n pushes of the default do); with n > C it reports
\* failure and leaves cursor and slots as they were.
C10_ExtendDefaults ==
    rcall.op = "extend_defaults" =>
        LET pre == rcall.pre
            n == rcall.arg
        IN IF n <= pre.capacity
           THEN /\ rcall.ok
                /\ rb.capacity = pre.capacity
                /\ rb.current_pos = (pre.current_pos + n) % pre.capacity
                /\ \A s \in 0..(pre.capacity - 1) :
                      rb.buffer[s] = IF s \in ClearedSlots(pre, n)
                                     THEN RingDefault ELSE pre.buffer[s]
           ELSE /\ ~rcall.ok
                /\ rb = pre

\* C10 witness: a refused extend_defaults (n > C) on a buffer that holds
\* non-default values away from slot 0.
C10_Witness ==
    /\ rcall.op = "extend_defaults"
    /\ ~rcall.ok
    /\ rcall.arg > rb.capacity
    /\ rb.current_pos # 0
    /\ \E s \in 0..(rb.capacity - 1) : rb.buffer[s] # RingDefault

\* The slot (i + cursor) mod C, the sum taken over the integers.
LogicalSlot(r, idx) == (idx + r.current_pos) % r.capacity

\* C11: for every capacity C >= 1, every cursor position and every usize value
\* i, including those where i + cursor exceeds usize, index(i) and index_mut(i)
\* do not fail and address physical slot (i + cursor) mod C.
C11_IndexAnyValue ==
    rcall.op \in {"index", "index_mut"} =>
        /\ rcall.ok
        /\ rcall.slot = LogicalSlot(rcall.pre, rcall.arg)

====
